---- MODULE Spec2Model ----
(***************************************************************************)
(* Model of parso/pgen2/parse.py: the table-driven pushdown parser engine  *)
(* PgenParser (parse, add_token, _pop), the label resolver                 *)
(* token_to_ilabel, and the error_recovery callback seen through its       *)
(* interface (it receives the live stack and the bound method add_token).  *)
(***************************************************************************)
EXTENDS Integers, Sequences, FiniteSets, TLC

\* ---------------------------------------------------------------- bounds
MaxLen == 3        \* longest token stream fed to parse
MaxHookOps == 1    \* stack mutations / re-entries the hook may make per parse
MaxDepth == 2      \* nesting of error_recovery invocations through re-entry

\* ------------------------------------------------------------ token types
NAME == "NAME"       \* tokenize.NAME
NUMBER == "NUMBER"   \* two other token types of the tokenizer
OP == "OP"
NoLabel == "None"    \* the None returned by token_to_ilabel
None == [kind |-> "None"]   \* Python's None where a tree node is expected

\* The tokens a stream is drawn from, as (type, value) pairs.
Alphabet ==
  { [type |-> NAME, value |-> "a"], [type |-> NAME, value |-> "b"],
    [type |-> NAME, value |-> "c"] }

\* A token of the stream: (type_, value, start_pos, prefix).
Token(tv, i) ==
  [type |-> tv.type, value |-> tv.value, start_pos |-> i, prefix |-> " "]

Streams ==
  UNION { { [i \in 1..n |-> Token(f[i], i)] : f \in [1..n -> Alphabet] }
          : n \in 0..MaxLen }

\* --------------------------------------------------------- grammar tables
\* Three rule sets, each compiled to DFAs:
\*   "ab":    S -> 'a' B        B -> 'b' | 'b' 'b'
\*   "chain": S -> A ['a']      A -> B      B -> 'b' ['b']
\*   "loop":  S -> (NAME | 'b' 'a')*
Rules == {"ab", "chain", "loop"}
Nonterminals == {"S", "A", "B"}

\* grammar.keywords: reserved word -> label
\* ("words", "numbers" and "bare" are label maps without rules, used to
\* exercise the label resolver alone.)
keywords(rules) ==
  CASE rules = "words"   -> [v \in {"a", "1"} |-> v]
    [] rules = "numbers" -> [v \in {} |-> v]
    [] rules = "bare"    -> [v \in {"b"} |-> v]
    [] OTHER             -> [v \in {"a", "b"} |-> v]

\* grammar.tokens: token type -> label
tokens_(rules) ==
  CASE rules = "loop"    -> [t \in {NAME} |-> t]
    [] rules = "words"   -> [t \in {NAME, NUMBER} |-> t]
    [] rules = "numbers" -> [t \in {NUMBER, OP} |-> t]
    [] OTHER             -> [t \in {} |-> t]

\* grammar._nonterminal_to_dfas: nonterminal -> list of DFA states
nonterminal_to_dfas(rules) ==
  CASE rules = "ab"    -> [nt \in {"S", "B"} |->
                             IF nt = "S" THEN <<"S0", "S1", "S2">>
                             ELSE <<"B0", "B1", "B2">>]
    [] rules = "chain" -> [nt \in {"S", "A", "B"} |->
                             IF nt = "S" THEN <<"S0", "S1", "S2">>
                             ELSE IF nt = "A" THEN <<"A0", "A1">>
                             ELSE <<"B0", "B1", "B2">>]
    [] rules = "loop"  -> [nt \in {"S"} |-> <<"S0", "S1">>]

State(from_rule, is_final, arcs) ==
  [from_rule |-> from_rule, is_final |-> is_final, arcs |-> arcs]

NoArcs == [x \in {} |-> x]

\* The DFA states of a rule set: owning rule, is_final, and the arcs over
\* terminal labels and nonterminal names.
DFAs(rules) ==
  CASE rules = "ab" ->
         [s \in {"S0", "S1", "S2", "B0", "B1", "B2"} |->
            CASE s = "S0" -> State("S", FALSE, "a" :> "S1")
              [] s = "S1" -> State("S", FALSE, "B" :> "S2")
              [] s = "S2" -> State("S", TRUE, NoArcs)
              [] s = "B0" -> State("B", FALSE, "b" :> "B1")
              [] s = "B1" -> State("B", TRUE, "b" :> "B2")
              [] s = "B2" -> State("B", TRUE, NoArcs)]
    [] rules = "chain" ->
         [s \in {"S0", "S1", "S2", "A0", "A1", "B0", "B1", "B2"} |->
            CASE s = "S0" -> State("S", FALSE, "A" :> "S1")
              [] s = "S1" -> State("S", TRUE, "a" :> "S2")
              [] s = "S2" -> State("S", TRUE, NoArcs)
              [] s = "A0" -> State("A", FALSE, "B" :> "A1")
              [] s = "A1" -> State("A", TRUE, NoArcs)
              [] s = "B0" -> State("B", FALSE, "b" :> "B1")
              [] s = "B1" -> State("B", TRUE, "b" :> "B2")
              [] s = "B2" -> State("B", TRUE, NoArcs)]
    [] rules = "loop" ->
         [s \in {"S0", "S1"} |->
            CASE s = "S0" -> State("S", TRUE, (NAME :> "S0") @@ ("b" :> "S1"))
              [] s = "S1" -> State("S", FALSE, "a" :> "S0")]

\* A grammar table is a rule set together with the way the compiler filled
\* the plans' pushes: "start" puts each nested nonterminal's start state,
\* "next" puts the state the nested nonterminal is in after the token.
\* ("loop" has no nested nonterminal, so its plans push nothing either way.)
Grammars ==
  { g \in [rules : Rules, pushes : {"start", "next"}] :
      g.rules = "loop" => g.pushes = "next" }

start_dfa(rules, nt) == nonterminal_to_dfas(rules)[nt][1]

is_final(g, dfa) == DFAs(g.rules)[dfa].is_final
from_rule(g, dfa) == DFAs(g.rules)[dfa].from_rule

\* For a nonterminal, the tokens it can start with and the frames to push
\* for each, outermost first.
RECURSIVE first_plans(_, _)
first_plans(g, nt) ==
  LET s0 == start_dfa(g.rules, nt)
      arcs == DFAs(g.rules)[s0].arcs
      entry(x) == IF g.pushes = "next" THEN arcs[x] ELSE s0
  IN UNION { IF x \in Nonterminals
             THEN { <<q[1], <<entry(x)>> \o q[2]>> : q \in first_plans(g, x) }
             ELSE { <<x, <<entry(x)>> >> }
             : x \in DOMAIN arcs }

DFAPlan(next_dfa, dfa_pushes) ==
  [next_dfa |-> next_dfa, dfa_pushes |-> dfa_pushes]

\* dfa.ilabel_to_plan: label -> plan, for one DFA state
ilabel_to_plan(g, dfa) ==
  LET arcs == DFAs(g.rules)[dfa].arcs
      pairs == UNION { IF x \in Nonterminals
                       THEN { <<q[1], DFAPlan(arcs[x], q[2])>> : q \in first_plans(g, x) }
                       ELSE { <<x, DFAPlan(arcs[x], <<>>)>> }
                       : x \in DOMAIN arcs }
  IN [l \in { p[1] : p \in pairs } |-> (CHOOSE p \in pairs : p[1] = l)[2]]

\* -------------------------------------------------------- label resolver
\* A variant with a slip: the reserved words are looked up whatever the
\* token's type is.
token_to_ilabel_any_type(g, type_, value) ==
  IF value \in DOMAIN keywords(g.rules)
  THEN keywords(g.rules)[value]
  ELSE IF type_ \in DOMAIN tokens_(g.rules)
       THEN tokens_(g.rules)[type_]
       ELSE NoLabel

token_to_ilabel(g, type_, value) ==
  IF type_ = NAME /\ value \in DOMAIN keywords(g.rules)
  THEN keywords(g.rules)[value]
  ELSE IF type_ \in DOMAIN tokens_(g.rules)
       THEN tokens_(g.rules)[type_]
       ELSE NoLabel

\* ------------------------------------------------------------ tree nodes
\* The two caller-supplied builders; the engine stores what they return.
convert_leaf(type_, value, prefix, start_pos) ==
  [kind |-> "leaf", type |-> type_, value |-> value, prefix |-> prefix,
   start_pos |-> start_pos]

convert_node(nonterminal, nodes) ==
  [kind |-> "node", type |-> nonterminal, children |-> nodes]

StackNode(dfa) == [dfa |-> dfa, nodes |-> <<>>]

\* ---------------------------------------------------------------- engine
\* Variants of _pop with a slip, used to see that the properties below
\* depend on it: one inserts the result in front of the parent's children,
\* one builds an internal node even for a single child, one sets the root
\* on every reduction.
pop_sets_root(g, stack, rootnode) ==
  LET n == Len(stack)
      tos == stack[n]
      rest == SubSeq(stack, 1, n - 1)
      new_node == IF Len(tos.nodes) = 1 THEN tos.nodes[1]
                  ELSE convert_node(from_rule(g, tos.dfa), tos.nodes)
  IN [stack |-> IF rest # <<>>
                THEN [rest EXCEPT ![n - 1].nodes = Append(@, new_node)]
                ELSE rest,
      rootnode |-> new_node,
      tos |-> tos,
      before |-> stack,
      new_node |-> new_node,
      node_calls |-> IF Len(tos.nodes) # 1
                     THEN << <<from_rule(g, tos.dfa), tos.nodes>> >>
                     ELSE <<>>]

pop_prepend(g, stack, rootnode) ==
  LET n == Len(stack)
      tos == stack[n]
      rest == SubSeq(stack, 1, n - 1)
      new_node == IF Len(tos.nodes) = 1 THEN tos.nodes[1]
                  ELSE convert_node(from_rule(g, tos.dfa), tos.nodes)
  IN [stack |-> IF rest # <<>>
                THEN [rest EXCEPT ![n - 1].nodes = <<new_node>> \o @]
                ELSE rest,
      rootnode |-> IF rest # <<>> THEN rootnode ELSE new_node,
      tos |-> tos,
      before |-> stack,
      new_node |-> new_node,
      node_calls |-> IF Len(tos.nodes) # 1
                     THEN << <<from_rule(g, tos.dfa), tos.nodes>> >>
                     ELSE <<>>]

pop_always_node(g, stack, rootnode) ==
  LET n == Len(stack)
      tos == stack[n]
      rest == SubSeq(stack, 1, n - 1)
      new_node == convert_node(from_rule(g, tos.dfa), tos.nodes)
  IN [stack |-> IF rest # <<>>
                THEN [rest EXCEPT ![n - 1].nodes = Append(@, new_node)]
                ELSE rest,
      rootnode |-> IF rest # <<>> THEN rootnode ELSE new_node,
      tos |-> tos,
      before |-> stack,
      new_node |-> new_node,
      node_calls |-> << <<from_rule(g, tos.dfa), tos.nodes>> >>]

\* _pop: the result carries what the call did, for the properties below.
pop(g, stack, rootnode) ==
  LET n == Len(stack)
      tos == stack[n]
      rest == SubSeq(stack, 1, n - 1)
      built == Len(tos.nodes) # 1
      new_node == IF Len(tos.nodes) = 1 THEN tos.nodes[1]
                  ELSE convert_node(from_rule(g, tos.dfa), tos.nodes)
  IN [stack |-> IF rest # <<>>
                THEN [rest EXCEPT ![n - 1].nodes = Append(@, new_node)]
                ELSE rest,
      rootnode |-> IF rest # <<>> THEN rootnode ELSE new_node,
      tos |-> tos,
      before |-> stack,
      new_node |-> new_node,
      node_calls |-> IF built THEN << <<from_rule(g, tos.dfa), tos.nodes>> >>
                     ELSE <<>>]

\* A variant of the lookup loop with a slip: a final frame without a plan
\* is treated as a dead end instead of being reduced.
lookup_no_pop(g, stack, rootnode, ilabel, pops) ==
  IF stack = <<>>
  THEN [outcome |-> "too much input", stack |-> stack, rootnode |-> rootnode,
        pops |-> pops]
  ELSE IF ilabel \in DOMAIN ilabel_to_plan(g, stack[Len(stack)].dfa)
  THEN [outcome |-> "plan", stack |-> stack, rootnode |-> rootnode,
        pops |-> pops]
  ELSE [outcome |-> "error_recovery", stack |-> stack,
        rootnode |-> rootnode, pops |-> pops]

\* A variant of the lookup loop with a slip: a frame without a plan is
\* reduced whether its state is final or not.
RECURSIVE lookup_pop_any(_, _, _, _, _)
lookup_pop_any(g, stack, rootnode, ilabel, pops) ==
  IF stack = <<>>
  THEN [outcome |-> "too much input", stack |-> stack, rootnode |-> rootnode,
        pops |-> pops]
  ELSE IF ilabel \in DOMAIN ilabel_to_plan(g, stack[Len(stack)].dfa)
  THEN [outcome |-> "plan", stack |-> stack, rootnode |-> rootnode,
        pops |-> pops]
  ELSE LET p == pop(g, stack, rootnode)
       IN lookup_pop_any(g, p.stack, p.rootnode, ilabel, Append(pops, p))

\* A variant of the lookup loop with a slip: at a dead end the frames
\* reduced on the way are put back before the hook is called.
RECURSIVE lookup_rollback(_, _, _, _, _)
lookup_rollback(g, stack, rootnode, ilabel, pops) ==
  IF stack = <<>>
  THEN [outcome |-> "too much input", stack |-> stack, rootnode |-> rootnode,
        pops |-> pops]
  ELSE LET tos == stack[Len(stack)] IN
       IF ilabel \in DOMAIN ilabel_to_plan(g, tos.dfa)
       THEN [outcome |-> "plan", stack |-> stack, rootnode |-> rootnode,
             pops |-> pops]
       ELSE IF is_final(g, tos.dfa)
       THEN LET p == pop(g, stack, rootnode)
            IN lookup_rollback(g, p.stack, p.rootnode, ilabel, Append(pops, p))
       ELSE [outcome |-> "error_recovery",
             stack |-> IF pops = <<>> THEN stack ELSE pops[1].before,
             rootnode |-> rootnode, pops |-> pops]

\* A variant of the lookup loop with a slip: too-much-input is raised as
\* soon as the bottom frame is final and has no plan, before it is reduced.
RECURSIVE lookup_raise_early(_, _, _, _, _)
lookup_raise_early(g, stack, rootnode, ilabel, pops) ==
  IF stack = <<>>
  THEN [outcome |-> "too much input", stack |-> stack, rootnode |-> rootnode,
        pops |-> pops]
  ELSE LET tos == stack[Len(stack)] IN
       IF ilabel \in DOMAIN ilabel_to_plan(g, tos.dfa)
       THEN [outcome |-> "plan", stack |-> stack, rootnode |-> rootnode,
             pops |-> pops]
       ELSE IF is_final(g, tos.dfa) /\ Len(stack) = 1
       THEN [outcome |-> "too much input", stack |-> stack,
             rootnode |-> rootnode, pops |-> pops]
       ELSE IF is_final(g, tos.dfa)
       THEN LET p == pop(g, stack, rootnode)
            IN lookup_raise_early(g, p.stack, p.rootnode, ilabel, Append(pops, p))
       ELSE [outcome |-> "error_recovery", stack |-> stack,
             rootnode |-> rootnode, pops |-> pops]

\* The `while True` lookup loop of add_token.
RECURSIVE lookup(_, _, _, _, _)
lookup(g, stack, rootnode, ilabel, pops) ==
  IF stack = <<>>
  THEN [outcome |-> "too much input", stack |-> stack, rootnode |-> rootnode,
        pops |-> pops]
  ELSE LET tos == stack[Len(stack)] IN
       IF ilabel \in DOMAIN ilabel_to_plan(g, tos.dfa)
       THEN [outcome |-> "plan", stack |-> stack, rootnode |-> rootnode,
             pops |-> pops]
       ELSE IF is_final(g, tos.dfa)
       THEN LET p == pop(g, stack, rootnode)
            IN lookup(g, p.stack, p.rootnode, ilabel, Append(pops, p))
       ELSE [outcome |-> "error_recovery", stack |-> stack,
             rootnode |-> rootnode, pops |-> pops]

\* A variant of the shift with a slip: the leaf is appended before the
\* frames are pushed, so it lands in the rebound frame.
shift_leaf_first(g, stack, plan, tok) ==
  LET n == Len(stack)
      leaf == convert_leaf(tok.type, tok.value, tok.prefix, tok.start_pos)
      rebound == [stack EXCEPT ![n].dfa = plan.next_dfa,
                               ![n].nodes = Append(@, leaf)]
  IN rebound \o [i \in 1..Len(plan.dfa_pushes) |->
                   StackNode(plan.dfa_pushes[i])]

\* The part of add_token after a plan was found.
shift(g, stack, plan, tok) ==
  LET n == Len(stack)
      rebound == [stack EXCEPT ![n].dfa = plan.next_dfa]
      pushed == rebound \o [i \in 1..Len(plan.dfa_pushes) |->
                              StackNode(plan.dfa_pushes[i])]
      leaf == convert_leaf(tok.type, tok.value, tok.prefix, tok.start_pos)
  IN [pushed EXCEPT ![Len(pushed)].nodes = Append(@, leaf)]

\* add_token as a function of the engine state and the token.
add_token(g, stack, rootnode, tok) ==
  LET ilabel == token_to_ilabel(g, tok.type, tok.value)
      l == lookup(g, stack, rootnode, ilabel, <<>>)
  IN IF l.outcome = "plan"
     THEN LET plan == ilabel_to_plan(g, l.stack[Len(l.stack)].dfa)[ilabel]
          IN [op |-> "add_token", outcome |-> "shift", stack |-> shift(g, l.stack, plan, tok),
              rootnode |-> l.rootnode, pops |-> l.pops, entry |-> stack,
              found |-> l.stack, plan |-> plan, tok |-> tok, ilabel |-> ilabel]
     ELSE [op |-> "add_token", outcome |-> l.outcome, stack |-> l.stack,
           rootnode |-> l.rootnode,
           pops |-> l.pops, entry |-> stack, found |-> l.stack,
           plan |-> DFAPlan("", <<>>), tok |-> tok, ilabel |-> ilabel]

\* The drain loop of parse: `while self.stack and self.stack[-1].dfa.is_final`.
RECURSIVE drain(_, _, _, _)
drain(g, stack, rootnode, pops) ==
  IF stack # <<>> /\ is_final(g, stack[Len(stack)].dfa)
  THEN LET p == pop(g, stack, rootnode)
       IN drain(g, p.stack, p.rootnode, Append(pops, p))
  ELSE [stack |-> stack, rootnode |-> rootnode, pops |-> pops]

\* ----------------------------------------------------------------- state
VARIABLES
  grammar,      \* self.grammar: the grammar table handed to the constructor
  tokens,       \* the token stream handed to parse
  stack,        \* self.stack: frames, bottom first; a frame is [dfa, nodes]
  rootnode,     \* self.rootnode
  pc,           \* where parse is: "feed", "hook", "returned", "raised"
  pos,          \* tokens taken from the stream by parse's for loop
  depth,        \* error_recovery invocations that have not returned yet
  err,          \* the exception that left parse, if any
  ret,          \* value returned by the add_token call that returned last
  result,       \* value returned by parse
  last,         \* what the last add_token call or drain did
  shifted,      \* tokens for which a leaf was built, in order
  hookCalls,    \* arguments of every error_recovery invocation, in order
  hookOps,      \* re-entries and stack mutations made by the hook so far
  hookMutated,  \* the hook has changed the stack directly
  given,        \* engine state handed to the outermost running hook
  hooklog,      \* what the outermost hook invocation did since it was called
  rootAssigns,  \* number of assignments to self.rootnode by _pop
  resolver,     \* a call of token_to_ilabel on its own: arguments and result
  engines       \* two further instances constructed on the same grammar

vars == <<grammar, tokens, stack, rootnode, pc, pos, depth, err, ret, result,
          last, shifted, hookCalls, hookOps, hookMutated, given, hooklog,
          rootAssigns, resolver, engines>>

NoTok == [type |-> "", value |-> "", start_pos |-> 0, prefix |-> ""]
NoErr == [msg |-> "", type |-> "", value |-> "", start_pos |-> 0]
NoCall == [op |-> "none", outcome |-> "", stack |-> <<>>, rootnode |-> None,
           pops |-> <<>>, entry |-> <<>>, found |-> <<>>,
           plan |-> DFAPlan("", <<>>), tok |-> NoTok, ilabel |-> ""]
NoGiven == [stack |-> <<>>, rootnode |-> None, pos |-> 0, tok |-> NoTok]
NoResolve == [grammar |-> [rules |-> "", pushes |-> ""], type |-> "",
              value |-> "", ilabel |-> "", done |-> FALSE]

InternalParseError(msg, tok) ==
  [msg |-> msg, type |-> tok.type, value |-> tok.value,
   start_pos |-> tok.start_pos]

\* Number of _pop calls in a list that set self.rootnode.
RootSets(pops) == Cardinality({ i \in 1..Len(pops) : pops[i].stack = <<>> })

\* The arguments error_recovery is called with; the stack is passed by
\* reference, its content at the call is recorded.
HookArgs(g, stk, tok) ==
  [grammar |-> g, stack |-> stk, type |-> tok.type, value |-> tok.value,
   start_pos |-> tok.start_pos, prefix |-> tok.prefix,
   add_token |-> "self.add_token"]

\* PgenParser.__init__
Init ==
  /\ grammar \in Grammars
  /\ tokens \in Streams
  /\ stack = << StackNode(start_dfa(grammar.rules, "S")) >>
  /\ rootnode = None
  /\ pc = "feed"
  /\ pos = 0
  /\ depth = 0
  /\ err = NoErr
  /\ ret = "unset"
  /\ result = None
  /\ last = NoCall
  /\ shifted = <<>>
  /\ hookCalls = <<>>
  /\ hookOps = 0
  /\ hookMutated = FALSE
  /\ given = NoGiven
  /\ hooklog = <<>>
  /\ rootAssigns = 0
  /\ resolver = NoResolve
  /\ engines = <<>>

\* The effect of one add_token call on the engine, whoever makes it.
\* A call that shifts returns None; a call that reaches a dead end is
\* suspended inside error_recovery; a call on an empty stack raises.
Call(tok, d) ==
  \E r \in { add_token(grammar, stack, rootnode, tok) } :
  /\ stack' = r.stack
  /\ rootnode' = r.rootnode
  /\ last' = r
  /\ rootAssigns' = rootAssigns + RootSets(r.pops)
  /\ CASE r.outcome = "shift" ->
            /\ shifted' = Append(shifted, tok)
            /\ ret' = "None"
            /\ pc' = IF d = 0 THEN "feed" ELSE "hook"
            /\ UNCHANGED <<depth, err, hookCalls>>
       [] r.outcome = "error_recovery" ->
            /\ hookCalls' = Append(hookCalls, HookArgs(grammar, r.stack, tok))
            /\ depth' = d + 1
            /\ pc' = "hook"
            /\ UNCHANGED <<shifted, ret, err>>
       [] r.outcome = "too much input" ->
            /\ err' = InternalParseError("too much input", tok)
            /\ pc' = "raised"
            /\ UNCHANGED <<shifted, ret, depth, hookCalls>>

\* parse, one iteration of `for type_, value, start_pos, prefix in tokens`.
AddToken ==
  /\ pc = "feed"
  /\ pos < Len(tokens)
  /\ pos' = pos + 1
  /\ Call(tokens[pos + 1], 0)
  /\ given' = [stack |-> stack', rootnode |-> rootnode', pos |-> pos',
               tok |-> tokens[pos + 1]]
  /\ hooklog' = <<>>
  /\ UNCHANGED <<engines, resolver, grammar, tokens, result, hookOps, hookMutated>>

\* A variant of the return from the hook with a slip: add_token goes on
\* and appends a leaf for the offending token to the top frame.
HookReturn_Shift ==
  /\ pc = "hook"
  /\ depth' = depth - 1
  /\ pc' = IF depth = 1 THEN "feed" ELSE "hook"
  /\ ret' = "None"
  /\ hooklog' = Append(hooklog, [op |-> "return", tok |-> NoTok, depth |-> depth])
  /\ stack' = IF stack = <<>> THEN stack
              ELSE [stack EXCEPT ![Len(stack)].nodes =
                      Append(@, convert_leaf(tokens[pos].type, tokens[pos].value,
                                             tokens[pos].prefix, tokens[pos].start_pos))]
  /\ UNCHANGED <<engines, resolver, grammar, tokens, rootnode, pos, err, result, last,
                 shifted, hookCalls, hookOps, hookMutated, given, rootAssigns>>

\* error_recovery returns; add_token's `return` follows at once.
HookReturn ==
  /\ pc = "hook"
  /\ depth' = depth - 1
  /\ pc' = IF depth = 1 THEN "feed" ELSE "hook"
  /\ ret' = "None"
  /\ hooklog' = Append(hooklog, [op |-> "return", tok |-> NoTok, depth |-> depth])
  /\ UNCHANGED <<engines, resolver, grammar, tokens, stack, rootnode, pos, err, result, last,
                 shifted, hookCalls, hookOps, hookMutated, given, rootAssigns>>

\* error_recovery raises a fatal condition of its own.
HookRaise ==
  /\ pc = "hook"
  /\ pc' = "raised"
  /\ err' = InternalParseError("error_recovery", tokens[pos])
  /\ hooklog' = Append(hooklog, [op |-> "raise", tok |-> NoTok, depth |-> depth])
  /\ UNCHANGED <<engines, resolver, grammar, tokens, stack, rootnode, pos, depth, ret, result,
                 last, shifted, hookCalls, hookOps, hookMutated, given,
                 rootAssigns>>

\* A variant of the re-entry with a slip: the callable handed to the hook
\* feeds the offending token again whatever token the hook passes.
HookReenter_Original ==
  /\ pc = "hook"
  /\ hookOps < MaxHookOps
  /\ \E tv \in Alphabet :
       LET t == Token(tv, tokens[pos].start_pos) IN
       /\ add_token(grammar, stack, rootnode, tokens[pos]).outcome = "error_recovery"
            => depth < MaxDepth
       /\ Call(tokens[pos], depth)
       /\ hooklog' = Append(hooklog, [op |-> "add_token", tok |-> t, depth |-> depth])
  /\ hookOps' = hookOps + 1
  /\ UNCHANGED <<engines, resolver, grammar, tokens, pos, result, hookMutated, given>>

\* error_recovery calls the add_token it was handed, with a token of its
\* choice placed where the offending token was.
HookReenter ==
  /\ pc = "hook"
  /\ hookOps < MaxHookOps
  /\ \E tv \in Alphabet :
       LET t == Token(tv, tokens[pos].start_pos) IN
       /\ add_token(grammar, stack, rootnode, t).outcome = "error_recovery"
            => depth < MaxDepth
       /\ Call(t, depth)
       /\ hooklog' = Append(hooklog, [op |-> "add_token", tok |-> t, depth |-> depth])
  /\ hookOps' = hookOps + 1
  /\ UNCHANGED <<engines, resolver, grammar, tokens, pos, result, hookMutated, given>>

ErrorLeaf == [kind |-> "error_leaf", type |-> "", value |-> "",
              prefix |-> "", start_pos |-> 0]

\* error_recovery changes the stack it was handed: it removes frames from
\* the top and may append a node of its own to the frame left on top.
HookMutate ==
  /\ pc = "hook"
  /\ hookOps < MaxHookOps
  /\ \E k \in 0..Len(stack), synth \in BOOLEAN :
       /\ k < Len(stack) \/ (synth /\ k > 0)
       /\ stack' = LET cut == SubSeq(stack, 1, k) IN
                   IF synth /\ k > 0
                   THEN [cut EXCEPT ![k].nodes = Append(@, ErrorLeaf)]
                   ELSE cut
  /\ hookOps' = hookOps + 1
  /\ hookMutated' = TRUE
  /\ hooklog' = Append(hooklog, [op |-> "mutate", tok |-> NoTok, depth |-> depth])
  /\ UNCHANGED <<engines, resolver, grammar, tokens, rootnode, pc, pos, depth, err, ret, result,
                 last, shifted, hookCalls, given, rootAssigns>>

\* A variant of the end of parse with a slip: the drain loop runs
\* `while self.stack` and reduces only when the top frame is final, so on a
\* non-final top frame it goes round without end.
Finish_Spin ==
  /\ pc = "feed"
  /\ pos = Len(tokens)
  /\ \E d \in { drain(grammar, stack, rootnode, <<>>) } :
     /\ stack' = d.stack
     /\ rootnode' = d.rootnode
     /\ rootAssigns' = rootAssigns + RootSets(d.pops)
     /\ last' = IF d.stack # <<>> /\ d.pops = <<>> THEN last
                ELSE [NoCall EXCEPT !.op = "drain", !.pops = d.pops,
                                    !.entry = stack, !.stack = d.stack,
                                    !.rootnode = d.rootnode]
     /\ IF d.stack # <<>>
        THEN UNCHANGED <<pc, err, result>>
        ELSE /\ pc' = "returned"
             /\ result' = d.rootnode
             /\ UNCHANGED err
  /\ UNCHANGED <<engines, resolver, grammar, tokens, pos, depth, ret, shifted,
                 hookCalls, hookOps, hookMutated, given, hooklog>>

\* parse after the for loop: drain, then raise or return self.rootnode.
\* With an empty stream the loop variables were never bound, so the raise
\* statement itself fails with UnboundLocalError.
Finish ==
  /\ pc = "feed"
  /\ pos = Len(tokens)
  /\ \E d \in { drain(grammar, stack, rootnode, <<>>) } :
     /\ stack' = d.stack
     /\ rootnode' = d.rootnode
     /\ rootAssigns' = rootAssigns + RootSets(d.pops)
     /\ last' = [NoCall EXCEPT !.op = "drain", !.pops = d.pops,
                               !.entry = stack, !.stack = d.stack,
                               !.rootnode = d.rootnode]
     /\ IF d.stack # <<>>
        THEN /\ pc' = "raised"
             /\ err' = IF pos = 0
                       THEN [NoErr EXCEPT !.msg = "UnboundLocalError"]
                       ELSE InternalParseError("incomplete input", tokens[pos])
             /\ UNCHANGED result
        ELSE /\ pc' = "returned"
             /\ result' = d.rootnode
             /\ UNCHANGED err
  /\ UNCHANGED <<engines, resolver, grammar, tokens, pos, depth, ret, shifted, hookCalls,
                 hookOps, hookMutated, given, hooklog>>

Next ==
  \/ AddToken
  \/ HookReturn
  \/ HookRaise
  \/ HookReenter
  \/ HookMutate
  \/ Finish

Spec == Init /\ [][Next]_vars

\* ------------------------------------------------- notions the claims use
\* The language of a rule set, read off its DFAs: Rest is the set of
\* suffixes that may remain when the rule entered at state dfa ends.
RECURSIVE Rest(_, _, _)
Rest(g, dfa, toks) ==
  LET d == DFAs(g.rules)[dfa] IN
  (IF d.is_final THEN {toks} ELSE {}) \cup
  UNION { IF x \in Nonterminals
          THEN UNION { Rest(g, d.arcs[x], t2)
                       : t2 \in Rest(g, start_dfa(g.rules, x), toks) }
          ELSE IF toks # <<>>
                  /\ token_to_ilabel(g, Head(toks).type, Head(toks).value) = x
               THEN Rest(g, d.arcs[x], Tail(toks))
               ELSE {}
          : x \in DOMAIN d.arcs }

InLanguage(g, toks) == <<>> \in Rest(g, start_dfa(g.rules, "S"), toks)

\* The leaves of a tree, left to right.
RECURSIVE Leaves(_)
RECURSIVE LeavesOf(_)
Leaves(node) ==
  IF node.kind = "node" THEN LeavesOf(node.children) ELSE <<node>>
LeavesOf(nodes) ==
  IF nodes = <<>> THEN <<>>
  ELSE Leaves(Head(nodes)) \o LeavesOf(Tail(nodes))

\* The leaves held by the frames of a stack, bottom frame first.
RECURSIVE StackLeaves(_)
StackLeaves(stk) ==
  IF stk = <<>> THEN <<>>
  ELSE LeavesOf(Head(stk).nodes) \o StackLeaves(Tail(stk))

LeafOf(tok) == convert_leaf(tok.type, tok.value, tok.prefix, tok.start_pos)
LeafSeq(toks) == [i \in 1..Len(toks) |-> LeafOf(toks[i])]

NoHook == hookCalls = <<>>
ab(p) == [rules |-> "ab", pushes |-> p]
Tk(v, i) == Token([type |-> NAME, value |-> v], i)

\* The example streams of the rule set "ab" and the trees they stand for.
StreamAB == << Tk("a", 1), Tk("b", 2) >>
StreamABB == << Tk("a", 1), Tk("b", 2), Tk("b", 3) >>
StreamABC == << Tk("a", 1), Tk("b", 2), Tk("c", 3) >>
TreeAB == convert_node("S", << LeafOf(Tk("a", 1)), LeafOf(Tk("b", 2)) >>)
TreeABB ==
  convert_node("S", << LeafOf(Tk("a", 1)),
                       convert_node("B", << LeafOf(Tk("b", 2)),
                                            LeafOf(Tk("b", 3)) >>) >>)

\* The leaves the engine holds: in the frames, or under the root once the
\* last frame is reduced.
HeldLeaves ==
  IF stack # <<>> THEN StackLeaves(stack)
  ELSE IF rootnode = None THEN <<>> ELSE Leaves(rootnode)

\* parse on a stream of the language: no raise, no hook, and the root's
\* leaves are the stream.
Preserved ==
  InLanguage(grammar, tokens) =>
     /\ pc \in {"feed", "returned"}
     /\ NoHook
     /\ pc = "returned" => result # None /\ Leaves(result) = LeafSeq(tokens)

\* -------------------------------------------------------------------- C1
\* C1 as stated: for every grammar table and every stream of its language
\* parse returns a root whose leaves are the input tokens in order, and the
\* frames' leaves, bottom to top, are the tokens shifted so far.
C1_Original ==
  /\ Preserved
  /\ ~hookMutated => HeldLeaves = LeafSeq(shifted)

\* C1 amended: token preservation holds for the tables whose plans push each
\* nested frame in the state its nonterminal has after the token; the
\* invariant on the frames' leaves holds for every table.
C1_TokenPreservation ==
  /\ grammar.pushes = "next" => Preserved
  /\ ~hookMutated => HeldLeaves = LeafSeq(shifted)

C1_Witness ==
  /\ pc = "returned" /\ grammar = [rules |-> "chain", pushes |-> "next"]
  /\ Len(tokens) = 3 /\ InLanguage(grammar, tokens)
  /\ Leaves(result) = LeafSeq(tokens)

\* -------------------------------------------------------------------- C2
ExampleTrees ==
  /\ tokens \in {StreamAB, StreamABB} => pc \in {"feed", "returned"} /\ NoHook
  /\ tokens = StreamAB /\ pc = "returned" => result = TreeAB
  /\ tokens = StreamABB /\ pc = "returned" => result = TreeABB

\* C2 as stated: with plans that push the B frame at B's start state,
\* parse([a, b]) returns S[a, b] and parse([a, b, b]) returns S[a, B[b, b]],
\* without fatal condition or hook.
C2_Original == grammar = ab("start") => ExampleTrees

\* C2 amended: the two trees are returned when the plans push the B frame
\* in B's state after 'b'.
C2_ExampleTrees == grammar = ab("next") => ExampleTrees

C2_Witness ==
  /\ grammar = ab("next") /\ pc = "returned"
  /\ tokens = StreamAB /\ result = TreeAB /\ Len(last.pops) = 2

\* -------------------------------------------------------------------- C3
HookOnC ==
  /\ hookCalls # <<>>
  /\ hookCalls[1].value = "c" /\ hookCalls[1].start_pos = 3
  /\ ~(err.msg = "too much input" /\ hooklog = <<>>)

\* C3 as stated: for the rule set "ab", add_token on the c of [a, b, c]
\* calls the hook and raises no too-much-input.
C3_Original ==
  grammar.rules = "ab" /\ tokens = StreamABC /\ pos = 3 => HookOnC

\* C3 amended: the hook is called on c only when the B frame was pushed at
\* B's start state, which is not final; when it was pushed in B's state
\* after 'b', c reduces B and S, the root S[a, b] is assigned and add_token
\* raises too-much-input for c without calling the hook.
C3_ExampleC ==
  grammar.rules = "ab" /\ tokens = StreamABC /\ pos = 3 =>
     IF grammar.pushes = "start"
     THEN HookOnC
     ELSE /\ pc = "raised" /\ NoHook
          /\ err = InternalParseError("too much input", Tk("c", 3))
          /\ rootnode = TreeAB /\ stack = <<>>

C3_Witness ==
  /\ grammar = ab("next") /\ tokens = StreamABC /\ pos = 3
  /\ pc = "raised" /\ err.msg = "too much input" /\ Len(last.pops) = 2

\* -------------------------------------------------------------------- C4
NoPlan(g, frame, ilabel) == ilabel \notin DOMAIN ilabel_to_plan(g, frame.dfa)

\* Every frame is final and has no plan for the label: the lookup loop
\* reduces them all and then looks up on the empty stack.  It holds of the
\* empty stack.
Drained(g, stk, ilabel) ==
  \A i \in 1..Len(stk) : is_final(g, stk[i].dfa) /\ NoPlan(g, stk[i], ilabel)

\* C4: add_token raises too-much-input exactly when its lookup is attempted
\* with no frame left, every frame having been reduced in a final state;
\* it raises no other fatal condition, and with no hook mutation the root
\* has then been assigned by those reductions.
C4_TooMuchInput ==
  last.op = "add_token" =>
     /\ last.outcome = "too much input" <=> Drained(grammar, last.entry, last.ilabel)
     /\ last.outcome \in {"shift", "error_recovery", "too much input"}
     /\ last.outcome = "too much input" =>
          /\ pc = "raised" /\ err = InternalParseError("too much input", last.tok)
          /\ stack = <<>> /\ Len(last.pops) = Len(last.entry)
          /\ ~hookMutated => rootnode # None
     /\ last.outcome # "too much input" =>
          err.msg \in {"", "error_recovery"} /\ last.stack # <<>>

C4_Witness ==
  /\ last.op = "add_token" /\ last.outcome = "too much input"
  /\ Len(last.pops) = 3 /\ NoHook /\ rootnode # None

\* -------------------------------------------------------------------- C5
\* C5 as stated: for every stream, the empty one included, parse raises
\* incomplete-input, carrying the last token seen, exactly when a frame in
\* a non-final state is on the stack once the stream is exhausted, and
\* otherwise drains the stack and returns the root.
C5_IncompleteInput ==
  last.op = "drain" =>
     IF \E i \in 1..Len(last.entry) : ~is_final(grammar, last.entry[i].dfa)
     THEN /\ pc = "raised"
          /\ err.msg = "incomplete input"
          /\ pos > 0 => err = InternalParseError("incomplete input", tokens[pos])
     ELSE pc = "returned" /\ stack = <<>> /\ result = rootnode

\* -------------------------------------------------------------------- C6
\* No frame can take a further token: each is final and has no plan.
CanOnlyEnd ==
  \A i \in 1..Len(stack) :
     is_final(grammar, stack[i].dfa)
     /\ DOMAIN ilabel_to_plan(grammar, stack[i].dfa) = {}

\* C6 as stated: add_token returns True exactly when the parse is complete
\* after the token (the last frame reduced, rootnode set) and a false value
\* otherwise, so a caller can stop on True and read rootnode; in particular
\* it returns True, with rootnode set, on the token after which no frame
\* can take another token.
C6_CompletionFlag ==
  pc = "feed" /\ ret # "unset" =>
     /\ ret = "True" <=> (stack = <<>> /\ rootnode # None)
     /\ CanOnlyEnd => ret = "True"

\* -------------------------------------------------------------------- C7
\* What one reduction did, read off its record.
Promoted(g, p) ==
  /\ p.new_node = p.tos.nodes[1]
  /\ p.node_calls = <<>>

Built(g, p) ==
  /\ p.node_calls = << <<from_rule(g, p.tos.dfa), p.tos.nodes>> >>
  /\ p.new_node = convert_node(from_rule(g, p.tos.dfa), p.tos.nodes)

Attached(p) ==
  LET n == Len(p.before) IN
  /\ p.tos = p.before[n]
  /\ Len(p.stack) = n - 1
  /\ IF n > 1
     THEN /\ p.stack[n - 1].nodes = Append(p.before[n - 1].nodes, p.new_node)
          /\ p.stack[n - 1].dfa = p.before[n - 1].dfa
          /\ \A i \in 1..(n - 2) : p.stack[i] = p.before[i]
     ELSE p.rootnode = p.new_node

RootRule ==
  ~hookMutated =>
     /\ stack = <<>> <=> rootnode # None
     /\ rootAssigns <= 1
     /\ rootAssigns = 1 <=> rootnode # None
     /\ rootnode # None => rootnode = last.pops[Len(last.pops)].new_node

\* C8: with no hook mutation of the stack, the root is assigned at most
\* once, by the reduction that removes the last frame, and never changes
\* afterwards; the stack is empty exactly when the root is assigned.
C8_RootOnce ==
  /\ []RootRule
  /\ [][~hookMutated' /\ rootnode # None => rootnode' = rootnode]_vars

C8_Witness ==
  /\ pc = "returned" /\ ~hookMutated /\ hookCalls # <<>>
  /\ rootAssigns = 1 /\ stack = <<>> /\ rootnode.kind = "node"

\* -------------------------------------------------------------------- C9
\* The lookup loop ends at a frame that is not final and has no plan for
\* the label, every frame above it being final without a plan.
DeadEnd(g, stk, ilabel) ==
  \E k \in 1..Len(stk) :
     /\ ~is_final(g, stk[k].dfa) /\ NoPlan(g, stk[k], ilabel)
     /\ \A j \in (k + 1)..Len(stk) :
          is_final(g, stk[j].dfa) /\ NoPlan(g, stk[j], ilabel)

\* add_token is entered: by parse, or by the hook through the re-entry.
Entered ==
  \/ pc = "feed" /\ pos' = pos + 1
  \/ /\ Len(hooklog') = Len(hooklog) + 1
     /\ hooklog'[Len(hooklog')].op = "add_token"

\* The call ended in the hook: one more invocation, with these arguments,
\* and nothing else done for the token.
Delegated ==
  /\ pc' = "hook" /\ depth' = depth + 1
  /\ hookCalls' = Append(hookCalls, HookArgs(grammar, stack', last'.tok))
  /\ err' = err /\ shifted' = shifted
  /\ Len(stack') <= Len(stack)
  /\ \A i \in 1..Len(stack') : stack'[i].dfa = stack[i].dfa
  /\ StackLeaves(stack') = StackLeaves(stack)

\* The hook returns to the add_token that called it, which returns at once.
Returning == pc = "hook" /\ depth' = depth - 1

\* C9: a lookup that ends at a non-final frame without a plan calls the
\* hook exactly once with the grammar, the live stack, the token's type,
\* value, start position and prefix and the re-entry point; add_token
\* raises nothing, and after the hook returns it does nothing more.
C9_DeadEnd ==
  [][ /\ Entered =>
           (DeadEnd(grammar, stack, last'.ilabel) <=> Delegated)
      /\ Entered /\ ~DeadEnd(grammar, stack, last'.ilabel) =>
           hookCalls' = hookCalls
      /\ Returning =>
           /\ stack' = stack /\ rootnode' = rootnode /\ shifted' = shifted
           /\ hookCalls' = hookCalls /\ err' = err /\ pos' = pos
           /\ ret' = "None" ]_vars

C9_Witness ==
  /\ pc = "feed" /\ Len(hookCalls) = 1 /\ hooklog # <<>>
  /\ hooklog[1].op = "return" /\ Len(last.pops) = 1
  /\ last.outcome = "error_recovery" /\ stack = last.stack

\* ------------------------------------------------------------------- C10
\* add_token(t) called by the driver on the state the hook was given.
Native(t) == add_token(grammar, given.stack, given.rootnode, t)

\* C10: a re-entry with a substitute token leaves the stack, the root and
\* the hook or fatal outcome that a native add_token of that token gives on
\* the stack the hook was given, and after the hook returns parse goes on
\* with the rest of the stream from that state.
C10_Reentry ==
  (hooklog # <<>> /\ hooklog[1].op = "add_token") =>
     \E n \in { Native(hooklog[1].tok) } :
        /\ Len(hooklog) = 1 =>
             /\ stack = n.stack /\ rootnode = n.rootnode
             /\ n.outcome = "shift" =>
                  pc = "hook" /\ depth = 1 /\ shifted[Len(shifted)] = n.tok
             /\ n.outcome = "error_recovery" =>
                  /\ pc = "hook" /\ depth = 2
                  /\ hookCalls[Len(hookCalls)] = HookArgs(grammar, n.stack, n.tok)
             /\ n.outcome = "too much input" =>
                  /\ pc = "raised"
                  /\ err = InternalParseError("too much input", n.tok)
        /\ (Len(hooklog) = 2 /\ hooklog[2].op = "return" /\ pc = "feed") =>
             /\ n.outcome = "shift"
             /\ stack = n.stack /\ rootnode = n.rootnode
             /\ pos = given.pos

C10_Witness ==
  /\ Len(hooklog) = 2 /\ hooklog[1].op = "add_token" /\ hooklog[2].op = "return"
  /\ hooklog[1].tok.value # tokens[given.pos].value
  /\ pc = "feed" /\ pos = given.pos /\ pos < Len(tokens)
  /\ last.outcome = "shift" /\ last.tok = hooklog[1].tok
  /\ stack = Native(hooklog[1].tok).stack /\ Len(stack) > Len(given.stack)

\* ---------------------------------------------- the label resolver alone
\* The engine at rest, for the specifications that exercise one part only.
EngineIdle ==
  /\ tokens = <<>>
  /\ stack = << StackNode(start_dfa(grammar.rules, "S")) >>
  /\ rootnode = None
  /\ pc = "idle"
  /\ pos = 0
  /\ depth = 0
  /\ err = NoErr
  /\ ret = "unset"
  /\ result = None
  /\ last = NoCall
  /\ shifted = <<>>
  /\ hookCalls = <<>>
  /\ hookOps = 0
  /\ hookMutated = FALSE
  /\ given = NoGiven
  /\ hooklog = <<>>
  /\ rootAssigns = 0

EngineVars ==
  <<grammar, tokens, stack, rootnode, pc, pos, depth, err, ret, result,
    last, shifted, hookCalls, hookOps, hookMutated, given, hooklog,
    rootAssigns>>

LabelRules == Rules \cup {"words", "numbers", "bare"}
TokenTypes == {NAME, NUMBER, OP}
TokenValues == {"a", "b", "c", "1"}

InitLabel ==
  /\ grammar = [rules |-> "ab", pushes |-> "next"]
  /\ EngineIdle
  /\ engines = <<>>
  /\ resolver \in { [grammar |-> [rules |-> r, pushes |-> "next"],
                     type |-> t, value |-> v, ilabel |-> "", done |-> FALSE] :
                    r \in LabelRules, t \in TokenTypes, v \in TokenValues }

\* token_to_ilabel(grammar, type_, value) is called once on the arguments.
Resolve ==
  /\ ~resolver.done
  /\ resolver' = [resolver EXCEPT
                    !.ilabel = token_to_ilabel(resolver.grammar, resolver.type,
                                               resolver.value),
                    !.done = TRUE]
  /\ UNCHANGED <<engines, EngineVars>>

NextLabel == Resolve

SpecLabel == InitLabel /\ [][NextLabel]_vars

\* C11: a NAME token whose value is a registered reserved word gets the
\* keyword's label and never the identifier label; every other token gets
\* the label registered for its type, or no label when there is none; a
\* token of another type whose value spells a reserved word is resolved by
\* its type only.
C11_LabelResolution ==
  resolver.done =>
    LET kw == keywords(resolver.grammar.rules)
        tk == tokens_(resolver.grammar.rules)
        reserved == resolver.type = NAME /\ resolver.value \in DOMAIN kw
        byType == IF resolver.type \in DOMAIN tk THEN tk[resolver.type]
                  ELSE NoLabel
    IN /\ reserved => /\ resolver.ilabel = kw[resolver.value]
                      /\ NAME \in DOMAIN tk => resolver.ilabel # tk[NAME]
       /\ ~reserved => resolver.ilabel = byType
       /\ resolver.type # NAME => resolver.ilabel = byType

\* A NUMBER token spelled like a reserved word has been resolved.
C11_Witness ==
  /\ resolver.done
  /\ resolver.type = NUMBER
  /\ resolver.value \in DOMAIN keywords(resolver.grammar.rules)
  /\ resolver.ilabel = NUMBER

\* ------------------------------------------- a caller other than parse()
\* The class documentation has the caller drive the engine itself:
\* p.setup([start]), then p.add_token(...) for each token, and setup()
\* again to reuse the instance.  The class defines __init__, parse,
\* add_token and _pop only, so p.setup is an AttributeError and the
\* instance keeps the stack and the root of the parse that ended.
Setup ==
  /\ pc \in {"returned", "raised"}
  /\ pc' = "setup"
  /\ err' = [err EXCEPT !.msg = "AttributeError"]
  /\ UNCHANGED <<engines, resolver, grammar, tokens, stack, rootnode, pos, depth, ret,
                 result, last, shifted, hookCalls, hookOps, hookMutated,
                 given, hooklog, rootAssigns>>

\* The caller goes on calling add_token after it raised too-much-input.
AddTokenAgain ==
  /\ pc = "raised"
  /\ err.msg = "too much input"
  /\ \E tv \in Alphabet : Call(Token(tv, pos + 1), depth)
  /\ UNCHANGED <<engines, resolver, grammar, tokens, pos, result, hookOps, hookMutated,
                 given, hooklog>>

NextCaller == Next \/ Setup \/ AddTokenAgain

SpecCaller == Init /\ [][NextCaller]_vars

\* C12: an engine that has finished a parse can be set up again, which
\* brings the stack back to the single start frame without children and
\* clears the root, so that a second parse starts as on a fresh engine.
C12_SequentialReuse ==
  pc = "setup" =>
    /\ stack = << StackNode(start_dfa(grammar.rules, "S")) >>
    /\ rootnode = None
    /\ err.msg # "AttributeError"

\* C13: whenever parse returns normally, the value returned is a root that
\* the reduction emptying the stack has assigned, never None; also when
\* the hook changed the live stack to force acceptance and the final drain
\* found nothing to reduce.
C13_ReturnedRoot ==
  pc = "returned" =>
    /\ result # None
    /\ result = rootnode
    /\ rootAssigns = 1

\* ----------------------------------------- two engines, one grammar table
\* Two PgenParser instances are constructed on the same grammar object and
\* driven by two threads; each has its own self.stack and self.rootnode.
\* The steps that interleave are the iterations of the loops of add_token
\* and parse.  error_recovery is a hook that returns at once.
Engines == {1, 2}

SharedStreams == { s \in Streams : Len(s) < MaxLen }

NewEngine(g, toks) ==
  [tokens |-> toks, stack |-> << StackNode(start_dfa(g.rules, "S")) >>,
   rootnode |-> None, pos |-> 0, pc |-> "feed", err |-> ""]

\* Instance attributes: what one instance assigns, no other instance sees.
\* The variant stores stack and root where every instance finds them, as
\* class attributes would be.
Store_class_attrs(e, eng) ==
  [x \in Engines |->
     IF x = e THEN eng
     ELSE [engines[x] EXCEPT !.stack = eng.stack, !.rootnode = eng.rootnode]]

Store(e, eng) == [engines EXCEPT ![e] = eng]

InitShared ==
  /\ grammar \in Grammars
  /\ EngineIdle
  /\ resolver = NoResolve
  /\ engines \in [Engines -> { NewEngine(grammar, s) : s \in SharedStreams }]

\* parse: the for loop takes the next token and calls add_token.
TakeToken(e) ==
  /\ engines[e].pc = "feed"
  /\ engines[e].pos < Len(engines[e].tokens)
  /\ engines' = Store(e, [engines[e] EXCEPT !.pos = @ + 1, !.pc = "lookup"])
  /\ UNCHANGED <<resolver, EngineVars>>

\* add_token: one iteration of `while True`, and what follows the loop.
LookupStep(e) ==
  /\ engines[e].pc = "lookup"
  /\ LET eng == engines[e]
         tok == eng.tokens[eng.pos]
         ilabel == token_to_ilabel(grammar, tok.type, tok.value)
     IN engines' =
          IF eng.stack = <<>>
          THEN Store(e, [eng EXCEPT !.pc = "raised", !.err = "too much input"])
          ELSE LET tos == eng.stack[Len(eng.stack)] IN
               IF ilabel \in DOMAIN ilabel_to_plan(grammar, tos.dfa)
               THEN Store(e, [eng EXCEPT
                         !.stack = shift(grammar, eng.stack,
                                         ilabel_to_plan(grammar, tos.dfa)[ilabel],
                                         tok),
                         !.pc = "feed"])
               ELSE IF is_final(grammar, tos.dfa)
               THEN LET p == pop(grammar, eng.stack, eng.rootnode)
                    IN Store(e, [eng EXCEPT !.stack = p.stack,
                                            !.rootnode = p.rootnode])
               ELSE Store(e, [eng EXCEPT !.pc = "feed"])
  /\ UNCHANGED <<resolver, EngineVars>>

\* parse: the stream is exhausted, the drain loop starts.
EndOfStream(e) ==
  /\ engines[e].pc = "feed"
  /\ engines[e].pos = Len(engines[e].tokens)
  /\ engines' = Store(e, [engines[e] EXCEPT !.pc = "drain"])
  /\ UNCHANGED <<resolver, EngineVars>>

\* parse: one iteration of the drain loop, or the end of parse.
DrainStep(e) ==
  /\ engines[e].pc = "drain"
  /\ LET eng == engines[e] IN
     engines' =
       IF eng.stack # <<>> /\ is_final(grammar, eng.stack[Len(eng.stack)].dfa)
       THEN LET p == pop(grammar, eng.stack, eng.rootnode)
            IN Store(e, [eng EXCEPT !.stack = p.stack, !.rootnode = p.rootnode])
       ELSE IF eng.stack # <<>>
       THEN Store(e, [eng EXCEPT !.pc = "raised",
                        !.err = IF eng.pos = 0 THEN "UnboundLocalError"
                                ELSE "incomplete input"])
       ELSE Store(e, [eng EXCEPT !.pc = "returned"])
  /\ UNCHANGED <<resolver, EngineVars>>

NextShared ==
  \E e \in Engines :
     \/ TakeToken(e)
     \/ LookupStep(e)
     \/ EndOfStream(e)
     \/ DrainStep(e)

SpecShared == InitShared /\ [][NextShared]_vars

\* One engine run alone on a stream: add_token for every token, then the
\* end of parse.
RECURSIVE Alone(_, _, _, _, _)
Alone(g, stk, root, toks, i) ==
  IF i > Len(toks)
  THEN LET d == drain(g, stk, root, <<>>)
       IN [tokens |-> toks, stack |-> d.stack, rootnode |-> d.rootnode,
           pos |-> Len(toks),
           pc |-> IF d.stack # <<>> THEN "raised" ELSE "returned",
           err |-> IF d.stack = <<>> THEN ""
                   ELSE IF toks = <<>> THEN "UnboundLocalError"
                   ELSE "incomplete input"]
  ELSE LET r == add_token(g, stk, root, toks[i])
       IN IF r.outcome = "too much input"
          THEN [tokens |-> toks, stack |-> r.stack, rootnode |-> r.rootnode,
                pos |-> i, pc |-> "raised", err |-> "too much input"]
          ELSE Alone(g, r.stack, r.rootnode, toks, i + 1)

EngineDone(e) == engines # <<>> /\ engines[e].pc \in {"returned", "raised"}

\* C14: no step of an engine changes the grammar table, and of two engines
\* that share it and whose steps interleave in any order each ends with the
\* stack, the root and the outcome it has when run alone on its stream.
C14_SharedGrammar ==
  /\ [][grammar' = grammar]_vars
  /\ [](\A e \in Engines :
          EngineDone(e) =>
            engines[e] = Alone(grammar, << StackNode(start_dfa(grammar.rules, "S")) >>,
                               None, engines[e].tokens, 1))

\* Both engines are done, on different streams, one with a tree and one
\* with an error.
C14_Witness ==
  /\ EngineDone(1) /\ EngineDone(2)
  /\ engines[1].pc = "returned" /\ engines[1].rootnode.kind = "node"
  /\ engines[2].pc = "raised"
  /\ Len(engines[1].tokens) = 2 /\ Len(engines[2].tokens) = 2

\* ------------------------------------------------------------------- C15
\* C15: a shift rebinds the state of the top frame to the plan's next
\* state, pushes one frame per entry of the plan's pushes, in order and
\* without children, and appends exactly one leaf, built from the token, to
\* the innermost frame; the stack grows by the number of pushes and the
\* frames below the rebound one are untouched.
C15_ShiftStep ==
  (last.op = "add_token" /\ last.outcome = "shift") =>
    LET f == last.found
        s == last.stack
        n == Len(f)
        k == Len(last.plan.dfa_pushes)
    IN /\ n >= 1
       /\ Len(s) = n + k
       /\ \A i \in 1..(n - 1) : s[i] = f[i]
       /\ s[n].dfa = last.plan.next_dfa
       /\ \A i \in 1..k : s[n + i].dfa = last.plan.dfa_pushes[i]
       /\ \A i \in n..(n + k - 1) :
            s[i].nodes = IF i = n THEN f[n].nodes ELSE <<>>
       /\ s[n + k].nodes =
            (IF k = 0 THEN f[n].nodes ELSE <<>>) \o << LeafOf(last.tok) >>
       /\ StackLeaves(s) = StackLeaves(f) \o << LeafOf(last.tok) >>

\* A shift that pushed two frames onto the start frame; the leaf is in the
\* innermost one.
C15_Witness ==
  /\ last.op = "add_token" /\ last.outcome = "shift"
  /\ Len(last.plan.dfa_pushes) = 2
  /\ Len(last.found) = 1
  /\ last.stack[3].nodes = << LeafOf(last.tok) >>

\* ------------------------------------------------------------------- C16
\* The token is no reserved word and its type has no label.
Unlabelled(g, tok) ==
  /\ ~(tok.type = NAME /\ tok.value \in DOMAIN keywords(g.rules))
  /\ tok.type \notin DOMAIN tokens_(g.rules)

\* The leaves the engine holds after a call: in the frames, or in the root
\* once the call has reduced the last frame.
LeavesAfter(call) ==
  IF call.stack # <<>> THEN StackLeaves(call.stack)
  ELSE IF call.pops = <<>> THEN <<>> ELSE Leaves(call.rootnode)

\* C16: a token that resolves to no label is never shifted: on every stack
\* add_token finds no plan for it in any frame, builds no leaf, rebinds no
\* state, and ends in the error path, which is the hook when a non-final
\* frame is reached and too-much-input otherwise.
C16_NoLabel ==
  (last.op = "add_token" /\ Unlabelled(grammar, last.tok)) =>
    /\ last.ilabel = NoLabel
    /\ \A i \in 1..Len(last.entry) : NoPlan(grammar, last.entry[i], last.ilabel)
    /\ last.outcome \in {"error_recovery", "too much input"}
    /\ (last.outcome = "error_recovery") <=>
         (\E i \in 1..Len(last.entry) : ~is_final(grammar, last.entry[i].dfa))
    /\ LeavesAfter(last) = StackLeaves(last.entry)
    /\ Len(last.stack) <= Len(last.entry)
    /\ \A i \in 1..Len(last.stack) : last.stack[i].dfa = last.entry[i].dfa
    /\ \A i \in 1..Len(shifted) : shifted[i] # last.tok

\* An unlabelled token met a stack of final frames with children, which
\* the call reduced before it raised.
C16_Witness ==
  /\ last.op = "add_token" /\ Unlabelled(grammar, last.tok)
  /\ last.outcome = "too much input"
  /\ Len(last.pops) = 2
  /\ StackLeaves(last.entry) # <<>>

\* ------------------------------------------------------------------- C17
\* parse is sequential code: as long as a step is possible one is taken,
\* and a hook invocation does not go on for ever.
SpecLive == Spec /\ WF_vars(Next)

\* The reductions of a call each removed one frame from the stack the
\* previous one left, starting from the stack at entry.
OnePerRetry(call) ==
  \A i \in 1..Len(call.pops) :
     /\ call.pops[i].before =
          (IF i = 1 THEN call.entry ELSE call.pops[i - 1].stack)
     /\ Len(call.pops[i].stack) = Len(call.pops[i].before) - 1

\* C17: every add_token call ends, in a shift, a hook invocation or
\* too-much-input, after at most as many reductions as there were frames at
\* entry, each retry of the lookup having popped a frame; and parse over a
\* finite stream ends with a root or a fatal condition, every hook
\* invocation returning.
C17_Termination ==
  /\ [](last.op = "add_token" =>
          /\ last.outcome \in {"shift", "error_recovery", "too much input"}
          /\ Len(last.pops) <= Len(last.entry)
          /\ OnePerRetry(last)
          /\ Len(last.found) = Len(last.entry) - Len(last.pops))
  /\ [](last.op = "drain" =>
          Len(last.pops) <= Len(last.entry) /\ OnePerRetry(last))
  /\ <>(pc \in {"returned", "raised"})

\* parse ended with incomplete input after a hook invocation that
\* returned, the call before having reduced a frame.
C17_Witness ==
  /\ pc = "raised" /\ err.msg = "incomplete input"
  /\ hookCalls # <<>>
  /\ last.op = "drain"
  /\ Len(stack) >= 1

\* ------------------------------------------------------------------- C18
\* The i-th reduction of a call took a final frame without a plan for the
\* label and appended its result to the frame below.
ReducedInto(g, call, i) ==
  LET p == call.pops[i]
      n == Len(p.before)
  IN /\ p.tos = p.before[n]
     /\ p.tos.dfa = call.entry[Len(call.entry) - i + 1].dfa
     /\ is_final(g, p.tos.dfa) /\ NoPlan(g, p.tos, call.ilabel)
     /\ n >= 2
     /\ p.stack = [SubSeq(p.before, 1, n - 1) EXCEPT
                     ![n - 1].nodes = Append(@, p.new_node)]

\* C18: the reductions add_token made before it reached a dead end are not
\* rolled back: the hook receives the stack at entry with zero or more top
\* frames reduced, each final and without a plan for the label and each
\* appended to its parent; the frames left keep the state they had at
\* entry; and the reductions are still there after the hook has returned.
C18_NoRollback ==
  (last.op = "add_token" /\ last.outcome = "error_recovery") =>
    LET e == last.entry
        s == last.stack
        k == Len(last.pops)
        m == Len(e) - k
    IN /\ m >= 1 /\ Len(s) = m
       /\ \A i \in 1..k : ReducedInto(grammar, last, i)
       /\ OnePerRetry(last)
       /\ s = IF k = 0 THEN e ELSE last.pops[k].stack
       /\ \A j \in 1..m : s[j].dfa = e[j].dfa
       /\ \A j \in 1..(m - 1) : s[j] = e[j]
       /\ hookCalls # <<>>
       /\ hookCalls[Len(hookCalls)] = HookArgs(grammar, s, last.tok)
       /\ (pc = "feed" /\ hooklog = << [op |-> "return", tok |-> NoTok,
                                         depth |-> 1] >>) =>
            stack = s /\ rootnode = last.rootnode

\* The hook was called after a reduction and has returned; parse goes on
\* from the reduced stack.
C18_Witness ==
  /\ last.op = "add_token" /\ last.outcome = "error_recovery"
  /\ Len(last.pops) = 1
  /\ pc = "feed"
  /\ hooklog = << [op |-> "return", tok |-> NoTok, depth |-> 1] >>
  /\ stack = last.stack /\ Len(stack) < Len(last.entry)

\* ------------------------------------------------------------------- C19
TooMuch == pc = "raised" /\ err.msg = "too much input"

\* What holds when add_token has raised too-much-input: nothing is left on
\* the stack, and the call that reduced the last frame assigned the root.
RaisedState ==
  /\ stack = <<>>
  /\ last.op = "add_token" /\ last.outcome = "too much input"
  /\ last.stack = <<>>
  /\ err = InternalParseError("too much input", last.tok)
  /\ last.pops # <<>> =>
       /\ last.pops[Len(last.pops)].stack = <<>>
       /\ rootnode = last.pops[Len(last.pops)].new_node
       /\ rootnode # None
  /\ ~hookMutated => rootnode # None /\ rootAssigns = 1

\* C19: too-much-input is absorbing and not state-preserving: when
\* add_token raises it after reducing the stack, the frames stay reduced,
\* the stack is empty and the root is assigned; from then on every further
\* add_token, whatever the token, raises too-much-input again and changes
\* neither the stack nor the root.
C19_Absorbing ==
  /\ [](TooMuch => RaisedState)
  /\ [][(TooMuch /\ pc' # "setup") =>
          /\ TooMuch'
          /\ stack' = stack /\ rootnode' = rootnode
          /\ rootAssigns' = rootAssigns
          /\ last'.entry = <<>> /\ last'.pops = <<>>]_vars

\* After a parse that ended in too-much-input without any hook invocation
\* add_token was called with another token and raised again.
C19_Witness ==
  /\ TooMuch
  /\ hookCalls = <<>>
  /\ last.entry = <<>>
  /\ last.tok.value # tokens[pos].value
  /\ rootnode # None /\ Leaves(rootnode) # <<>>

\* ------------------------------------------------------------------- C20
\* The frame is the one the constructor made and nothing was shifted yet.
Untouched(stk) ==
  /\ Len(stk) = 1
  /\ stk[1] = StackNode(start_dfa(grammar.rules, "S"))
  /\ shifted = <<>>

\* C20: as long as the hook does not change the stack, between add_token
\* calls the top frame has at least one child unless it is the initial
\* frame and no token was shifted; so every frame is reduced with at least
\* one child, and convert_node gets an empty list of children only when
\* the initial frame is reduced before any token was shifted.
C20_NonEmptyFrames ==
  ~hookMutated =>
    /\ (pc \in {"feed", "hook"} /\ stack # <<>>) =>
         stack[Len(stack)].nodes # <<>> \/ Untouched(stack)
    /\ \A i \in 1..Len(last.pops) :
         LET p == last.pops[i] IN
         /\ p.tos.nodes = <<>> => Untouched(p.before)
         /\ \A j \in 1..Len(p.node_calls) :
              p.node_calls[j][2] = <<>> => Untouched(p.before)

\* A call reduced a frame that had children and left its parent, with the
\* result as a child, on top when it called the hook.
C20_Witness ==
  /\ ~hookMutated
  /\ pc = "hook" /\ last.outcome = "error_recovery"
  /\ Len(last.pops) = 1
  /\ last.pops[1].tos.nodes # <<>>
  /\ stack # <<>> /\ stack[Len(stack)].nodes # <<>>
  /\ ~Untouched(stack)

====
